---- MODULE Spec2Model ----
(***************************************************************************)
(* SonosPlay (src/sonosplay.py): the single-file HTTP media server         *)
(* (FileServer, _SingleFileHandler), the play worker and the stop handler  *)
(* of SonosPlayApp, and the group resolution made by a speaker refresh.    *)
(*                                                                         *)
(* Threads of the program: the Tk event loop ("ui"), one do_play worker    *)
(* per Play request, and one serve_forever thread per Thread object made   *)
(* by FileServer.serve.  A listener (an http.server.HTTPServer object) is  *)
(* made by at most one worker, so a listener is named by the worker that   *)
(* bound it, and so is the Thread object a worker makes.  The port the OS  *)
(* assigns to a listener is modelled by the listener's name.               *)
(***************************************************************************)
EXTENDS Integers, Sequences, FiniteSets, TLC

\* ------------------------------------------------------------------ bounds
MaxPlays == 2
MaxDevices == 3
MaxMoves == 2
MaxSelects == 2
MaxRefreshes == 2

\* --------------------------------------------------------------- constants
\* Python's None: as an object reference (listeners and Thread objects are
\* numbered from 1) and as the absent speaker.
None == 0
NoSpeaker == "None"
UI == 0
Workers == 1..MaxPlays
Listeners == Workers
Callers == Workers \cup {UI}
Coordinators == {"A", "B"}

\* The set_vol and fetch_vol threads, numbered in the order they are started.
SetWorkers == 1..MaxMoves
FetchWorkers == 1..MaxSelects

\* The discover threads, numbered in the order they are started.
RefreshWorkers == 1..MaxRefreshes

\* Levels a device can hold (0..100 on the device) and slider positions the
\* Scale can report, in tenths: Tk passes the position as a float.
Levels == {0, 30, 45, 50, 100}
SliderValues == {305, 500}

\* Paths are sequences of one-character strings.
NoFile == << >>
File1 == << "/", "d", "/", "a", " ", "b" >>
File2 == << "/", "c", "%" >>
Files == {File1, File2}

\* ----------------------------------------------------------- pure helpers
\* urllib.parse.quote with the default safe="/": unreserved characters and
\* "/" are kept, every other character becomes "%" and two hex digits.
AlwaysSafe == {"a", "b", "c", "d", ".", "-", "_", "~", "/"}

Ord(c) == CASE c = " " -> 32 [] c = "%" -> 37 [] OTHER -> 63

HexDigits == << "0", "1", "2", "3", "4", "5", "6", "7",
                "8", "9", "A", "B", "C", "D", "E", "F" >>

QuoteChar(c) ==
    IF c \in AlwaysSafe THEN << c >>
    ELSE << "%", HexDigits[(Ord(c) \div 16) + 1], HexDigits[(Ord(c) % 16) + 1] >>

RECURSIVE quote(_)
quote(s) == IF s = << >> THEN << >> ELSE QuoteChar(Head(s)) \o quote(Tail(s))

\* os.path.basename: what follows the last "/".
RECURSIVE basename(_)
basename(p) ==
    IF p = << >> THEN << >>
    ELSE IF p[Len(p)] = "/" THEN << >>
    ELSE Append(basename(SubSeq(p, 1, Len(p) - 1)), p[Len(p)])

\* The path part of the URL that FileServer.serve returns for file f.
UrlPath(f) == << "/" >> \o quote(basename(f))

\* Request paths a client may send.
GetPaths == {UrlPath(f) : f \in Files} \cup {<< "/" >>}

\* Devices of the household, named by their uid; player names and labels are
\* sequences of character codes, compared as Python compares strings.
Devices == 1..MaxDevices
NameA == << 65 >>
NameB == << 66 >>
NameC == << 67 >>
Names == {NameA, NameB, NameC}
Separator == << 32, 43, 32 >>

\* No response sent yet.
NoResp == [listener |-> None, path |-> << >>, status |-> 0, body |-> NoFile]

\* ------------------------------------------------------------------- state
VARIABLES
    httpd,            \* FileServer._httpd: a listener or None
    thread,           \* FileServer._thread: a Thread object or None
    file_path,        \* _SingleFileHandler.file_path (class attribute)
    sock,             \* listener -> "unbound" | "open" | "closed" (its socket)
    shutdown_request, \* listener -> BaseServer.__shutdown_request
    is_shut_down,     \* listener -> BaseServer.__is_shut_down (an Event)
    loopTarget,       \* Thread object -> the listener whose serve_forever it runs
    loopSt,           \* Thread object -> position of the thread
    selected_file,    \* SonosPlayApp.selected_file
    active_speaker,   \* SonosPlayApp.active_speaker
    pc,               \* caller -> position in do_play / _stop
    ret,              \* caller -> where FileServer.stop returns to
    hloc,             \* caller -> listener held by the call in progress
    coord,            \* worker -> coordinator captured by do_play
    file,             \* worker -> the file path passed to serve
    stopCmd,          \* the coordinator's stop in the last _stop:
                      \* "none" (not called) | "ok" | "raised"
    stopped,          \* listeners on which a shutdown() call has returned
    resp,             \* the last HTTP response sent, or NoResp
    names,            \* device -> player_name, as the last discovery saw it
    coordOf,          \* device -> uid of its group's coordinator
    found,            \* the set soco.discover returned
    groups,           \* the list discover() hands to _populate_groups
    discovered,       \* whether discover() has run on the snapshot
    members,          \* the selected group's member list; << >> without a selection
    volume,           \* device -> the level the device holds (m.volume)
    volume_var,       \* self.volume_var, the level the slider displays
    setSt,            \* set_vol worker -> "none" | "running" | "done" | "raised"
    setIdx,           \* set_vol worker -> index of the member it writes next
    setVol,           \* set_vol worker -> vol, the level it was started with
    setOut,           \* set_vol worker -> member -> "none" | "ok" | "raised"
    fetchSt,          \* fetch_vol worker -> "none" | "reading" | "posted" |
                      \* "shown" | "failed"
    fetchReads,       \* fetch_vol worker -> the volumes read so far
    fetchAvg,         \* fetch_vol worker -> avg, once computed
    speaker_list,     \* the labels shown in the Listbox, top to bottom
    self_groups,      \* self.groups: label -> (coordinator, members)
    rfSt,             \* discover worker -> "none" | "probing" | "posted" |
                      \* "populated" | "raised"
    rfProbe,          \* discover worker -> what soco.discover did: "none" |
                      \* "devices" | "nothing" | "raises"
    rfGroups,         \* discover worker -> the list it handed to root.after
    afterQ            \* callbacks queued by root.after(0, ...), oldest first

fsVars == << httpd, thread, file_path, sock, shutdown_request, is_shut_down,
             loopTarget, loopSt, stopped >>
fsVarsNoSock == << httpd, thread, file_path, shutdown_request, is_shut_down,
                  loopTarget, loopSt, stopped >>
appVars == << selected_file, active_speaker, pc, ret, hloc, coord, file,
              stopCmd, resp >>
grpVars == << names, coordOf, found, groups, discovered >>
volVars == << members, volume, volume_var, setSt, setIdx, setVol, setOut,
              fetchSt, fetchReads, fetchAvg >>
rfVars == << speaker_list, self_groups, rfSt, rfProbe, rfGroups, afterQ >>
vars == << fsVars, appVars, grpVars, volVars, rfVars >>

\* SonosPlayApp.__init__ and FileServer.__init__; no worker exists yet.
InitApp ==
    /\ httpd = None
    /\ thread = None
    /\ file_path = NoFile
    /\ sock = [l \in Listeners |-> "unbound"]
    /\ shutdown_request = [l \in Listeners |-> FALSE]
    /\ is_shut_down = [l \in Listeners |-> FALSE]
    /\ loopTarget = [t \in Workers |-> None]
    /\ loopSt = [t \in Workers |-> "none"]
    /\ selected_file = NoFile
    /\ active_speaker = NoSpeaker
    /\ pc = [c \in Callers |-> IF c = UI THEN "idle" ELSE "unborn"]
    /\ ret = [c \in Callers |-> "none"]
    /\ hloc = [c \in Callers |-> None]
    /\ coord = [w \in Workers |-> NoSpeaker]
    /\ file = [w \in Workers |-> NoFile]
    /\ stopCmd = "none"
    /\ stopped = {}
    /\ resp = NoResp

\* No volume worker exists; volume_var = tk.IntVar(value=0) (line 134).
InitVolWorkers ==
    /\ volume_var = 0
    /\ setSt = [v \in SetWorkers |-> "none"]
    /\ setIdx = [v \in SetWorkers |-> 1]
    /\ setVol = [v \in SetWorkers |-> 0]
    /\ setOut = [v \in SetWorkers |-> [d \in Devices |-> "none"]]
    /\ fetchSt = [f \in FetchWorkers |-> "none"]
    /\ fetchReads = [f \in FetchWorkers |-> << >>]
    /\ fetchAvg = [f \in FetchWorkers |-> 0]

\* Nothing is selected in the list and no volume worker exists.
InitVolIdle ==
    /\ members = << >>
    /\ volume = [d \in Devices |-> 0]
    /\ InitVolWorkers

\* An empty list and no discover worker: self.groups = {} (line 81).
InitListEmpty ==
    /\ speaker_list = << >>
    /\ self_groups = << >>
    /\ rfSt = [r \in RefreshWorkers |-> "none"]
    /\ rfProbe = [r \in RefreshWorkers |-> "none"]
    /\ rfGroups = [r \in RefreshWorkers |-> << >>]
    /\ afterQ = << >>

\* No discovery has run: self.groups is empty (line 81).
Init ==
    /\ InitApp
    /\ InitVolIdle
    /\ InitListEmpty
    /\ names = [d \in Devices |-> NameA]
    /\ coordOf = [d \in Devices |-> d]
    /\ found = {}
    /\ groups = << >>
    /\ discovered = FALSE

\* --------------------------------------------------- references and sockets
\* A Thread object holds its target until Thread.run deletes it; a Thread
\* that was never started lives only as long as FileServer._thread names it.
ThreadHolds(t, l) ==
    /\ loopTarget[t] = l
    /\ \/ loopSt[t] \in {"started", "running", "finally", "exited"}
       \/ loopSt[t] = "created" /\ thread = t

\* The HTTPServer object l is reachable from the program.
Referenced(l) ==
    \/ httpd = l
    \/ \E c \in Callers : hloc[c] = l
    \/ \E t \in Workers : ThreadHolds(t, l)

\* The code never calls server_close(): a listening socket is closed only
\* when its HTTPServer object loses its last reference (CPython closes a
\* socket when the socket object is deallocated).  Every step ends with it;
\* new is the listener the step has just bound, if any.
Sweep(new) ==
    sock' = [l \in Listeners |->
                IF l = new THEN "open"
                ELSE IF sock[l] = "open" /\ ~Referenced(l)' THEN "closed"
                ELSE sock[l]]

\* An exception leaves the handler: do_play catches it (except Exception),
\* the Tk callback of _stop is abandoned.
RaiseTo(c) == IF c = UI THEN "idle" ELSE "failed_serve"

\* ------------------------------------------------------- FileServer.stop
\* A stop without the test of line 64: it goes on to self._httpd.shutdown().
StopIfTarget_NoTest(c) == "stop_load"

\* line 64: if self._httpd; without a session stop returns at once.
StopIfTarget(c) == IF httpd = None THEN ret[c] ELSE "stop_load"

StopIf(c) ==
    /\ pc[c] = "stop_if"
    /\ pc' = [pc EXCEPT ![c] = StopIfTarget(c)]
    /\ UNCHANGED << httpd, thread, file_path, shutdown_request, is_shut_down,
                    loopTarget, loopSt, stopped, selected_file,
                    active_speaker, ret, hloc, coord, file, stopCmd, resp >>
    /\ Sweep(None)

\* line 65: self._httpd is read a second time; on None the attribute lookup
\* raises AttributeError.
StopLoad(c) ==
    /\ pc[c] = "stop_load"
    /\ IF httpd = None
       THEN /\ pc' = [pc EXCEPT ![c] = RaiseTo(c)]
            /\ UNCHANGED hloc
       ELSE /\ pc' = [pc EXCEPT ![c] = "shutdown_set"]
            /\ hloc' = [hloc EXCEPT ![c] = httpd]
    /\ UNCHANGED << httpd, thread, file_path, shutdown_request, is_shut_down,
                    loopTarget, loopSt, stopped, selected_file,
                    active_speaker, ret, coord, file, stopCmd, resp >>
    /\ Sweep(None)

\* BaseServer.shutdown: self.__shutdown_request = True
ShutdownSet(c) ==
    /\ pc[c] = "shutdown_set"
    /\ shutdown_request' = [shutdown_request EXCEPT ![hloc[c]] = TRUE]
    /\ pc' = [pc EXCEPT ![c] = "shutdown_wait"]
    /\ UNCHANGED << httpd, thread, file_path, is_shut_down, loopTarget,
                    loopSt, stopped, selected_file, active_speaker, ret, hloc,
                    coord, file, stopCmd, resp >>
    /\ Sweep(None)

\* A shutdown that does not wait for the serving loop to end.
ShutdownReturns_NoWait(c) == TRUE

\* BaseServer.shutdown: self.__is_shut_down.wait(); the call then returns.
ShutdownReturns(c) == is_shut_down[hloc[c]]

ShutdownWait(c) ==
    /\ pc[c] = "shutdown_wait"
    /\ ShutdownReturns(c)
    /\ stopped' = stopped \cup {hloc[c]}
    /\ hloc' = [hloc EXCEPT ![c] = None]
    /\ pc' = [pc EXCEPT ![c] = "stop_clear_httpd"]
    /\ UNCHANGED << httpd, thread, file_path, shutdown_request, is_shut_down,
                    loopTarget, loopSt, selected_file, active_speaker, ret,
                    coord, file, stopCmd, resp >>
    /\ Sweep(None)

\* line 66: self._httpd = None
StopClearHttpd(c) ==
    /\ pc[c] = "stop_clear_httpd"
    /\ httpd' = None
    /\ pc' = [pc EXCEPT ![c] = "stop_clear_thread"]
    /\ UNCHANGED << thread, file_path, shutdown_request, is_shut_down,
                    loopTarget, loopSt, stopped, selected_file,
                    active_speaker, ret, hloc, coord, file, stopCmd, resp >>
    /\ Sweep(None)

\* line 67: self._thread = None; stop returns to its caller.
StopClearThread(c) ==
    /\ pc[c] = "stop_clear_thread"
    /\ thread' = None
    /\ pc' = [pc EXCEPT ![c] = ret[c]]
    /\ UNCHANGED << httpd, file_path, shutdown_request, is_shut_down,
                    loopTarget, loopSt, stopped, selected_file,
                    active_speaker, ret, hloc, coord, file, stopCmd, resp >>
    /\ Sweep(None)

\* ------------------------------------------------------ FileServer.serve
\* line 51: _SingleFileHandler.file_path = file_path
SetFile(w) ==
    /\ pc[w] = "set_file"
    /\ file_path' = file[w]
    /\ pc' = [pc EXCEPT ![w] = "bind"]
    /\ UNCHANGED << httpd, thread, shutdown_request, is_shut_down, loopTarget,
                    loopSt, stopped, selected_file, active_speaker, ret, hloc,
                    coord, file, stopCmd, resp >>
    /\ Sweep(None)

\* lines 53-54: HTTPServer(("", 0), _SingleFileHandler) binds and listens on
\* a port the OS chooses and is stored in self._httpd.
Bind(w) ==
    /\ pc[w] = "bind"
    /\ httpd' = w
    /\ pc' = [pc EXCEPT ![w] = "mk_thread"]
    /\ UNCHANGED << thread, file_path, shutdown_request, is_shut_down,
                    loopTarget, loopSt, stopped, selected_file,
                    active_speaker, ret, hloc, coord, file, stopCmd, resp >>
    /\ Sweep(w)

\* line 56, right-hand side: self._httpd.serve_forever reads self._httpd
\* again; on None the attribute lookup raises AttributeError.
MkThread(w) ==
    /\ pc[w] = "mk_thread"
    /\ IF httpd = None
       THEN /\ pc' = [pc EXCEPT ![w] = "failed_serve"]
            /\ UNCHANGED hloc
       ELSE /\ pc' = [pc EXCEPT ![w] = "assign_thread"]
            /\ hloc' = [hloc EXCEPT ![w] = httpd]
    /\ UNCHANGED << httpd, thread, file_path, shutdown_request, is_shut_down,
                    loopTarget, loopSt, stopped, selected_file,
                    active_speaker, ret, coord, file, stopCmd, resp >>
    /\ Sweep(None)

\* line 56, assignment: the new Thread object, whose target is the bound
\* method read above, is stored in self._thread.
AssignThread(w) ==
    /\ pc[w] = "assign_thread"
    /\ loopTarget' = [loopTarget EXCEPT ![w] = hloc[w]]
    /\ loopSt' = [loopSt EXCEPT ![w] = "created"]
    /\ hloc' = [hloc EXCEPT ![w] = None]
    /\ thread' = w
    /\ pc' = [pc EXCEPT ![w] = "start_thread"]
    /\ UNCHANGED << httpd, file_path, shutdown_request, is_shut_down, stopped,
                    selected_file, active_speaker, ret, coord, file, stopCmd,
                    resp >>
    /\ Sweep(None)

\* line 57: self._thread.start() reads self._thread again: None raises
\* AttributeError, a Thread already started raises RuntimeError.  Lines
\* 59-61 then build the URL from values local to the call and serve returns.
StartThread(w) ==
    /\ pc[w] = "start_thread"
    /\ IF thread # None /\ loopSt[thread] = "created"
       THEN /\ loopSt' = [loopSt EXCEPT ![thread] = "started"]
            /\ pc' = [pc EXCEPT ![w] = "play_uri"]
       ELSE /\ pc' = [pc EXCEPT ![w] = "failed_serve"]
            /\ UNCHANGED loopSt
    /\ UNCHANGED << httpd, thread, file_path, shutdown_request, is_shut_down,
                    loopTarget, stopped, selected_file, active_speaker, ret,
                    hloc, coord, file, stopCmd, resp >>
    /\ Sweep(None)

\* The URL serve returns to worker w (lines 59-61): the port of the listener
\* it bound and the quoted basename.
ServeUrl(w) == [port |-> w, path |-> UrlPath(file[w])]

\* ------------------------------------------- socketserver.serve_forever
\* The thread starts running serve_forever: self.__is_shut_down.clear()
LoopEnter(t) ==
    /\ loopSt[t] = "started"
    /\ loopSt' = [loopSt EXCEPT ![t] = "running"]
    /\ is_shut_down' = [is_shut_down EXCEPT ![loopTarget[t]] = FALSE]
    /\ UNCHANGED << httpd, thread, file_path, shutdown_request, loopTarget,
                    stopped, appVars >>
    /\ Sweep(None)

\* while not self.__shutdown_request: ... leaves the loop
LoopBreak(t) ==
    /\ loopSt[t] = "running"
    /\ shutdown_request[loopTarget[t]]
    /\ loopSt' = [loopSt EXCEPT ![t] = "finally"]
    /\ UNCHANGED << httpd, thread, file_path, shutdown_request, is_shut_down,
                    loopTarget, stopped, appVars >>
    /\ Sweep(None)

\* finally: self.__shutdown_request = False; self.__is_shut_down.set()
LoopFinally(t) ==
    /\ loopSt[t] = "finally"
    /\ shutdown_request' = [shutdown_request EXCEPT ![loopTarget[t]] = FALSE]
    /\ is_shut_down' = [is_shut_down EXCEPT ![loopTarget[t]] = TRUE]
    /\ loopSt' = [loopSt EXCEPT ![t] = "exited"]
    /\ UNCHANGED << httpd, thread, file_path, loopTarget, stopped, appVars >>
    /\ Sweep(None)

\* Thread.run ends: del self._target drops the thread's reference.
LoopRelease(t) ==
    /\ loopSt[t] = "exited"
    /\ loopSt' = [loopSt EXCEPT ![t] = "released"]
    /\ UNCHANGED << httpd, thread, file_path, shutdown_request, is_shut_down,
                    loopTarget, stopped, appVars >>
    /\ Sweep(None)

\* --------------------------------------------------- _SingleFileHandler
\* lines 22-23: the request path is ignored.
translate_path(path) == file_path

\* SimpleHTTPRequestHandler.send_head: the translated path is opened; a
\* file that cannot be opened gives 404.  The files of Files exist.
send_head(path) ==
    IF translate_path(path) \in Files
    THEN [status |-> 200, body |-> translate_path(path)]
    ELSE [status |-> 404, body |-> NoFile]

\* A running serving loop accepts a GET on its listener and answers it.
HandleRequest(t, p) ==
    /\ loopSt[t] = "running"
    /\ ~shutdown_request[loopTarget[t]]
    /\ sock[loopTarget[t]] = "open"
    /\ resp' = [listener |-> loopTarget[t], path |-> p,
                status |-> send_head(p).status, body |-> send_head(p).body]
    /\ UNCHANGED << fsVarsNoSock, selected_file, active_speaker, pc, ret,
                    hloc, coord, file, stopCmd >>
    /\ Sweep(None)

\* ------------------------------------------------------- SonosPlayApp
\* _browse_file (lines 158-165): the user picks a file.
Browse(f) ==
    /\ pc[UI] = "idle"
    /\ f # selected_file
    /\ selected_file' = f
    /\ UNCHANGED << fsVarsNoSock, active_speaker, pc, ret, hloc, coord, file,
                    stopCmd, resp >>
    /\ Sweep(None)

\* The workers started so far are 1 .. NumPlays.
NumPlays == Cardinality({w \in Workers : pc[w] # "unborn"})

\* _play (lines 251-283) on the event loop: with a file selected and the
\* selected group's coordinator k, start a do_play worker and return.
PlayRequest(k) ==
    /\ pc[UI] = "idle"
    /\ selected_file # NoFile
    /\ NumPlays < MaxPlays
    /\ pc' = [pc EXCEPT ![NumPlays + 1] = "begin"]
    /\ coord' = [coord EXCEPT ![NumPlays + 1] = k]
    /\ UNCHANGED << fsVarsNoSock, selected_file, active_speaker, ret, hloc,
                    file, stopCmd, resp >>
    /\ Sweep(None)

\* do_play, line 265: self.selected_file is read by the worker and serve is
\* called, which calls self.stop() first (line 50).
DoPlayBegin(w) ==
    /\ w \in Workers
    /\ pc[w] = "begin"
    /\ file' = [file EXCEPT ![w] = selected_file]
    /\ pc' = [pc EXCEPT ![w] = "stop_if"]
    /\ ret' = [ret EXCEPT ![w] = "set_file"]
    /\ UNCHANGED << fsVarsNoSock, selected_file, active_speaker, hloc, coord,
                    stopCmd, resp >>
    /\ Sweep(None)

\* do_play, line 266: coordinator.play_uri(url, ...) returns or raises; the
\* exception is caught at line 274 and only reported.
PlayUriOutcome(ok) == IF ok THEN "set_active" ELSE "failed_play"

PlayUri(w, ok) ==
    /\ w \in Workers
    /\ pc[w] = "play_uri"
    /\ pc' = [pc EXCEPT ![w] = PlayUriOutcome(ok)]
    /\ UNCHANGED << fsVarsNoSock, selected_file, active_speaker, ret, hloc,
                    coord, file, stopCmd, resp >>
    /\ Sweep(None)

\* do_play, line 267: self.active_speaker = coordinator
SetActive(w) ==
    /\ w \in Workers
    /\ pc[w] = "set_active"
    /\ active_speaker' = coord[w]
    /\ pc' = [pc EXCEPT ![w] = "done"]
    /\ UNCHANGED << fsVarsNoSock, selected_file, ret, hloc, coord, file,
                    stopCmd, resp >>
    /\ Sweep(None)

\* _stop, line 286: if self.active_speaker; without one the status is set
\* (line 293) and the handler goes on to line 294.
StopRequest ==
    /\ pc[UI] = "idle"
    /\ stopCmd' = "none"
    /\ pc' = [pc EXCEPT ![UI] =
                 IF active_speaker # NoSpeaker THEN "ui_cmd" ELSE "stop_if"]
    /\ ret' = [ret EXCEPT ![UI] = "ui_clear"]
    /\ UNCHANGED << fsVarsNoSock, selected_file, active_speaker, hloc, coord,
                    file, resp >>
    /\ Sweep(None)

\* A _stop whose try has no except: the exception ends the handler.
AfterStopCmd_Propagate(ok) == IF ok THEN "stop_if" ELSE "idle"

\* _stop, lines 287-291: self.active_speaker.stop() returns or raises; the
\* exception is caught and shown, and the handler goes on to line 294,
\* self.file_server.stop().
AfterStopCmd(ok) == "stop_if"

UiCmd(ok) ==
    /\ pc[UI] = "ui_cmd"
    /\ stopCmd' = IF ok THEN "ok" ELSE "raised"
    /\ pc' = [pc EXCEPT ![UI] = AfterStopCmd(ok)]
    /\ UNCHANGED << fsVarsNoSock, selected_file, active_speaker, ret, hloc,
                    coord, file, resp >>
    /\ Sweep(None)

\* _stop, line 295: self.active_speaker = None; the handler returns.
UiClear ==
    /\ pc[UI] = "ui_clear"
    /\ active_speaker' = NoSpeaker
    /\ pc' = [pc EXCEPT ![UI] = "idle"]
    /\ UNCHANGED << fsVarsNoSock, selected_file, ret, hloc, coord, file,
                    stopCmd, resp >>
    /\ Sweep(None)

\* ------------------------------------- _refresh_speakers.discover (172-187)
\* Python's order on strings: by character code, a proper prefix first.
RECURSIVE LexLeq(_, _)
LexLeq(s, t) ==
    IF s = << >> THEN TRUE
    ELSE IF t = << >> THEN FALSE
    ELSE IF Head(s) < Head(t) THEN TRUE
    ELSE IF Head(s) > Head(t) THEN FALSE
    ELSE LexLeq(Tail(s), Tail(t))

\* Iterating over the set S of devices, in the order order.
IterOf(S, order) == SelectSeq(order, LAMBDA d : d \in S)

\* sp.group.coordinator.uid and sp.group.members (lines 178-179, 183)
GroupCoordinator(sp) == coordOf[sp]
GroupMembers(sp) == {d \in Devices : coordOf[d] = coordOf[sp]}

\* sorted() and list.sort() are stable: an element goes behind the elements
\* whose key is not greater than its own.
InsertByName(s, x) ==
    LET idx == Cardinality({i \in 1..Len(s) : LexLeq(names[s[i]], names[x])})
    IN  SubSeq(s, 1, idx) \o << x >> \o SubSeq(s, idx + 1, Len(s))

RECURSIVE SortByName(_)
SortByName(s) ==
    IF s = << >> THEN << >>
    ELSE InsertByName(SortByName(SubSeq(s, 1, Len(s) - 1)), s[Len(s)])

\* line 184: " + ".join(m.player_name for m in members)
RECURSIVE JoinNames(_)
JoinNames(ms) ==
    IF ms = << >> THEN << >>
    ELSE IF Len(ms) = 1 THEN names[ms[1]]
    ELSE names[ms[1]] \o Separator \o JoinNames(Tail(ms))

\* lines 183-185: the entry appended for device sp
GroupEntry(sp, order) ==
    LET ms == SortByName(IterOf(GroupMembers(sp), order))
    IN  [label |-> JoinNames(ms), coord |-> GroupCoordinator(sp),
         members |-> ms]

\* A loop that does not skip a coordinator it has recorded.
AlreadySeen_Never(uid, seen) == FALSE

\* lines 180-181: if coord.uid in seen: continue
AlreadySeen(uid, seen) == uid \in seen

\* lines 175-185: the loop over found
RECURSIVE CollectGroups(_, _, _, _)
CollectGroups(todo, seen, acc, order) ==
    IF todo = << >> THEN acc
    ELSE IF AlreadySeen(GroupCoordinator(Head(todo)), seen)
         THEN CollectGroups(Tail(todo), seen, acc, order)
         ELSE CollectGroups(Tail(todo),
                            seen \cup {GroupCoordinator(Head(todo))},
                            Append(acc, GroupEntry(Head(todo), order)), order)

\* A list of groups left in the order the loop appended them.
InsertByLabel_Unsorted(s, g) == Append(s, g)

InsertByLabel(s, g) ==
    LET idx == Cardinality({i \in 1..Len(s) : LexLeq(s[i].label, g.label)})
    IN  SubSeq(s, 1, idx) \o << g >> \o SubSeq(s, idx + 1, Len(s))

\* line 186: groups.sort(key=lambda g: g[0])
RECURSIVE SortByLabel(_)
SortByLabel(gs) ==
    IF gs = << >> THEN << >>
    ELSE InsertByLabel(SortByLabel(SubSeq(gs, 1, Len(gs) - 1)), gs[Len(gs)])

\* What discover() computes from the snapshot when sets iterate in order.
Resolve(order) ==
    SortByLabel(CollectGroups(IterOf(found, order), {}, << >>, order))

\* The orders of iteration and the group topologies a household can report:
\* every group has one coordinator, which is a member of it.
Orders == {o \in [1..MaxDevices -> Devices] :
              \A i, j \in 1..MaxDevices : o[i] = o[j] => i = j}
Topologies == {f \in [Devices -> Devices] : \A d \in Devices : f[f[d]] = f[d]}

\* The household at a refresh: soco.discover answers with a set of its
\* devices (None becomes the empty set, line 173).
InitGroups ==
    /\ InitApp
    /\ InitVolIdle
    /\ InitListEmpty
    /\ names \in [Devices -> Names]
    /\ coordOf \in Topologies
    /\ found \in SUBSET Devices
    /\ groups = << >>
    /\ discovered = FALSE

\* discover() builds the list of groups from the snapshot (lines 173-186);
\* the order in which Python iterates over a set of devices is not fixed.
Discover ==
    /\ ~discovered
    /\ \E order \in Orders : groups' = Resolve(order)
    /\ discovered' = TRUE
    /\ UNCHANGED << fsVars, appVars, names, coordOf, found, volVars, rfVars >>

NextGroups == Discover

SpecGroups == InitGroups /\ [][NextGroups]_vars

\* ------------------------------------------------ volume (lines 206-249)
\* The group selected in the list: devices 1..n in member order.
Selections == {[i \in 1..n |-> i] : n \in 1..MaxDevices}

\* int(float(value)) of line 230 on a position given in tenths.
IntOfFloat(value) == value \div 10

NumMoves == Cardinality({v \in SetWorkers : setSt[v] # "none"})

\* _on_volume_change: the Scale has moved to value. Without a selection the
\* handler returns at line 234; else it starts a set_vol thread (line 249).
OnVolumeChange(value) ==
    /\ NumMoves < MaxMoves
    /\ volume_var' = IntOfFloat(value)
    /\ IF members = << >>
         THEN UNCHANGED << setSt, setVol >>
         ELSE /\ setSt' = [setSt EXCEPT ![NumMoves + 1] = "running"]
              /\ setVol' = [setVol EXCEPT ![NumMoves + 1] = IntOfFloat(value)]
    /\ UNCHANGED << members, volume, setIdx, setOut, fetchSt, fetchReads,
                    fetchAvg >>

\* An exception of m.volume = vol leaving set_vol: the thread ends with it.
SetVolAfter_Raise(v, ok) ==
    IF ok THEN [st |-> IF setIdx[v] = Len(members) THEN "done" ELSE "running",
                idx |-> setIdx[v] + 1]
          ELSE [st |-> "raised", idx |-> setIdx[v]]

\* lines 243-247: try/except around each assignment; the loop goes on to
\* the next member whatever the outcome.
SetVolAfter(v, ok) ==
    [st |-> IF setIdx[v] = Len(members) THEN "done" ELSE "running",
     idx |-> setIdx[v] + 1]

\* One iteration of set_vol's loop: m.volume = vol succeeds or raises.
SetVolStep(v, ok) ==
    /\ setSt[v] = "running"
    /\ LET m == members[setIdx[v]]
       IN  /\ volume' = IF ok THEN [volume EXCEPT ![m] = setVol[v]] ELSE volume
           /\ setOut' = [setOut EXCEPT ![v][m] = IF ok THEN "ok" ELSE "raised"]
    /\ setSt' = [setSt EXCEPT ![v] = SetVolAfter(v, ok).st]
    /\ setIdx' = [setIdx EXCEPT ![v] = SetVolAfter(v, ok).idx]
    /\ UNCHANGED << members, volume_var, setVol, fetchSt, fetchReads, fetchAvg >>

NumSelects == Cardinality({f \in FetchWorkers : fetchSt[f] # "none"})

\* _on_speaker_select: with a group selected it starts a fetch_vol thread
\* (line 223); without one it returns at line 209.
OnSpeakerSelect ==
    /\ NumSelects < MaxSelects
    /\ members # << >>
    /\ fetchSt' = [fetchSt EXCEPT ![NumSelects + 1] = "reading"]
    /\ UNCHANGED << members, volume, volume_var, setSt, setIdx, setVol, setOut,
                    fetchReads, fetchAvg >>

RECURSIVE Sum(_)
Sum(q) == IF q = << >> THEN 0 ELSE Head(q) + Sum(Tail(q))

\* An average that rounds to the nearest level.
Average_Rounded(reads) == (2 * Sum(reads) + Len(reads)) \div (2 * Len(reads))

\* line 218: sum(...) // len(members)
Average(reads) == Sum(reads) \div Len(reads)

\* sum() reads one member's volume; a read that raises ends fetch_vol in
\* the except branch of line 220.
FetchRead(f, ok) ==
    /\ fetchSt[f] = "reading"
    /\ Len(fetchReads[f]) < Len(members)
    /\ IF ok
         THEN /\ fetchReads' = [fetchReads EXCEPT
                    ![f] = Append(@, volume[members[Len(@) + 1]])]
              /\ UNCHANGED fetchSt
         ELSE /\ fetchSt' = [fetchSt EXCEPT ![f] = "failed"]
              /\ UNCHANGED fetchReads
    /\ UNCHANGED << members, volume, volume_var, setSt, setIdx, setVol, setOut,
                    fetchAvg >>

\* lines 218-219: the division, then root.after hands avg to the event loop.
FetchPost(f) ==
    /\ fetchSt[f] = "reading"
    /\ Len(fetchReads[f]) = Len(members)
    /\ fetchAvg' = [fetchAvg EXCEPT ![f] = Average(fetchReads[f])]
    /\ fetchSt' = [fetchSt EXCEPT ![f] = "posted"]
    /\ UNCHANGED << members, volume, volume_var, setSt, setIdx, setVol, setOut,
                    fetchReads >>

\* _set_volume_display(avg), run by the event loop.
SetVolumeDisplay(f) ==
    /\ fetchSt[f] = "posted"
    /\ volume_var' = fetchAvg[f]
    /\ fetchSt' = [fetchSt EXCEPT ![f] = "shown"]
    /\ UNCHANGED << members, volume, setSt, setIdx, setVol, setOut, fetchReads,
                    fetchAvg >>

\* Slider moves on a household whose devices start at level 0, with or
\* without a group selected.
InitVolume ==
    /\ InitApp
    /\ names = [d \in Devices |-> NameA]
    /\ coordOf = [d \in Devices |-> d]
    /\ found = {}
    /\ groups = << >>
    /\ discovered = FALSE
    /\ InitListEmpty
    /\ members \in Selections \cup {<< >>}
    /\ volume = [d \in Devices |-> 0]
    /\ InitVolWorkers

NextVolume ==
    /\ \/ \E value \in SliderValues : OnVolumeChange(value)
       \/ \E v \in SetWorkers, ok \in BOOLEAN : SetVolStep(v, ok)
    /\ UNCHANGED << fsVars, appVars, grpVars, rfVars >>

SpecVolume == InitVolume /\ [][NextVolume]_vars

\* Selections of a group whose members hold any levels.
InitFetch ==
    /\ InitApp
    /\ names = [d \in Devices |-> NameA]
    /\ coordOf = [d \in Devices |-> d]
    /\ found = {}
    /\ groups = << >>
    /\ discovered = FALSE
    /\ InitListEmpty
    /\ members \in Selections
    /\ volume \in [Devices -> Levels]
    /\ InitVolWorkers

NextFetch ==
    /\ \/ OnSpeakerSelect
       \/ \E f \in FetchWorkers, ok \in BOOLEAN : FetchRead(f, ok)
       \/ \E f \in FetchWorkers : FetchPost(f)
       \/ \E f \in FetchWorkers : SetVolumeDisplay(f)
    /\ UNCHANGED << fsVars, appVars, grpVars, rfVars >>

SpecFetch == InitFetch /\ [][NextFetch]_vars

\* ------------------------------------------- refresh (lines 167-196)
NumRefreshes == Cardinality({r \in RefreshWorkers : rfSt[r] # "none"})

\* _refresh_speakers, run by the event loop: empties the Listbox and
\* self.groups (lines 169-170) and starts a discover thread (line 189).
RefreshSpeakers ==
    /\ NumRefreshes < MaxRefreshes
    /\ speaker_list' = << >>
    /\ self_groups' = << >>
    /\ rfSt' = [rfSt EXCEPT ![NumRefreshes + 1] = "probing"]
    /\ UNCHANGED << rfProbe, rfGroups, afterQ >>

\* The list discover() builds: found is what the probe returned, and
\* "or set()" of line 173 turns a probe that returned None into no device.
BuiltGroups(outcome, order) == IF outcome = "devices" THEN Resolve(order) ELSE << >>

\* discover() in its thread (lines 172-187). The body has no try: a probe
\* that raises ends the thread before root.after is reached.
DiscoverRun(r, outcome, order) ==
    /\ rfSt[r] = "probing"
    /\ rfProbe' = [rfProbe EXCEPT ![r] = outcome]
    /\ IF outcome = "raises"
         THEN /\ rfSt' = [rfSt EXCEPT ![r] = "raised"]
              /\ UNCHANGED << rfGroups, afterQ >>
         ELSE /\ rfSt' = [rfSt EXCEPT ![r] = "posted"]
              /\ rfGroups' = [rfGroups EXCEPT ![r] = BuiltGroups(outcome, order)]
              /\ afterQ' = Append(afterQ, r)
    /\ UNCHANGED << speaker_list, self_groups >>

\* The entry self.groups[l] holds after the loop of lines 192-194: the last
\* tuple of the list with that label, or the entry it held before.
DictAfter(dict, list, l) ==
    LET at == {i \in DOMAIN list : list[i].label = l}
    IN  IF at = {} THEN dict[l]
        ELSE LET last == CHOOSE i \in at : \A j \in at : j <= i
             IN  [coord |-> list[last].coord, members |-> list[last].members]

\* _populate_groups(groups), the oldest queued callback, run by the event
\* loop: every label is appended to the Listbox and stored in self.groups.
PopulateGroups ==
    /\ afterQ # << >>
    /\ LET r == Head(afterQ)
           list == rfGroups[r]
           keys == DOMAIN self_groups \cup {list[i].label : i \in DOMAIN list}
       IN  /\ speaker_list' = speaker_list \o [i \in DOMAIN list |-> list[i].label]
           /\ self_groups' = [l \in keys |-> DictAfter(self_groups, list, l)]
           /\ rfSt' = [rfSt EXCEPT ![r] = "populated"]
    /\ afterQ' = Tail(afterQ)
    /\ UNCHANGED << rfProbe, rfGroups >>

\* line 150: __init__ ends by starting the first discovery, on a household
\* that stays as it is while the refreshes run.
InitRefresh ==
    /\ InitApp
    /\ InitVolIdle
    /\ names \in [Devices -> Names]
    /\ coordOf \in Topologies
    /\ found \in SUBSET Devices
    /\ groups = << >>
    /\ discovered = FALSE
    /\ speaker_list = << >>
    /\ self_groups = << >>
    /\ rfSt = [r \in RefreshWorkers |-> IF r = 1 THEN "probing" ELSE "none"]
    /\ rfProbe = [r \in RefreshWorkers |-> "none"]
    /\ rfGroups = [r \in RefreshWorkers |-> << >>]
    /\ afterQ = << >>

ProbeOutcomes == {"devices", "nothing", "raises"}

NextRefresh ==
    /\ \/ RefreshSpeakers
       \/ \E r \in RefreshWorkers, outcome \in ProbeOutcomes, order \in Orders :
              DiscoverRun(r, outcome, order)
       \/ PopulateGroups
    /\ UNCHANGED << fsVars, appVars, grpVars, volVars >>

SpecRefresh == InitRefresh /\ [][NextRefresh]_vars

\* ------------------------------------------------------------ the program
\* Steps of the threads other than the event loop's dispatch of a request.
ThreadStep ==
    \/ \E c \in Callers : StopIf(c)
    \/ \E c \in Callers : StopLoad(c)
    \/ \E c \in Callers : ShutdownSet(c)
    \/ \E c \in Callers : ShutdownWait(c)
    \/ \E c \in Callers : StopClearHttpd(c)
    \/ \E c \in Callers : StopClearThread(c)
    \/ \E w \in Workers : DoPlayBegin(w)
    \/ \E w \in Workers : SetFile(w)
    \/ \E w \in Workers : Bind(w)
    \/ \E w \in Workers : MkThread(w)
    \/ \E w \in Workers : AssignThread(w)
    \/ \E w \in Workers : StartThread(w)
    \/ \E w \in Workers, ok \in BOOLEAN : PlayUri(w, ok)
    \/ \E w \in Workers : SetActive(w)
    \/ \E ok \in BOOLEAN : UiCmd(ok)
    \/ UiClear
    \/ \E t \in Workers : LoopEnter(t)
    \/ \E t \in Workers : LoopBreak(t)
    \/ \E t \in Workers : LoopFinally(t)
    \/ \E t \in Workers : LoopRelease(t)

\* The user's requests, dispatched by the event loop.
Request ==
    \/ \E f \in Files : Browse(f)
    \/ \E k \in Coordinators : PlayRequest(k)
    \/ StopRequest

\* A client of the media server sends a GET.
ClientStep == \E t \in Workers, p \in GetPaths : HandleRequest(t, p)

\* The threads of the program with requests dispatched at any time.  A GET
\* changes nothing but resp, so the clients are left to SpecSeq.
Next == (Request \/ ThreadStep) /\ UNCHANGED << grpVars, volVars, rfVars >>

Spec == Init /\ [][Next]_vars

\* No do_play worker and no _stop handler is in progress.
Finished(w) == pc[w] \in {"unborn", "done", "failed_serve", "failed_play"}
Quiescent == pc[UI] = "idle" /\ \A w \in Workers : Finished(w)

\* The same program when the user makes each request only after the previous
\* one has finished: the FileServer's calls are made one after another.
NextSeq ==
    /\ (Quiescent /\ Request) \/ ThreadStep \/ ClientStep
    /\ UNCHANGED << grpVars, volVars, rfVars >>

SpecSeq == Init /\ [][NextSeq]_vars

\* ================================================================ claims
\* A serve_forever thread on listener l has been started and has not ended.
Serving(l) ==
    \E t \in Workers :
        loopTarget[t] = l /\ loopSt[t] \in {"started", "running", "finally"}

OpenSockets == {l \in Listeners : sock[l] = "open"}

\* No Stop has been requested so far.
NoStopYet == ret[UI] = "none"

\* C1: with serve and stop called one after another, the FileServer never
\* has two listening sockets bound at the same time.
C1_OneListenerBound == Cardinality(OpenSockets) <= 1

\* C2: once concurrent play workers have all returned (and no Stop was
\* requested), exactly one listener is serving and it is the one that
\* FileServer._httpd references.
C2_ServeSerialized ==
    (Quiescent /\ NoStopYet /\ NumPlays >= 1)
        => /\ httpd # None
           /\ {l \in Listeners : Serving(l)} = {httpd}

\* C3: with calls made one after another, a listener whose shutdown has
\* returned has no serving loop and answers no request, and every serve
\* returns with its own new listener bound, referenced and being served.
C3_SessionStarted(w) ==
    /\ httpd = w
    /\ sock[w] = "open"
    /\ loopTarget[w] = w
    /\ loopSt[w] \in {"started", "running"}
    /\ w \notin stopped

C3_StopEndsSession ==
    /\ [](\A l \in stopped : ~Serving(l))
    /\ [][resp' # resp => resp'.listener \notin stopped]_vars
    /\ [](\A w \in Workers : pc[w] # "failed_serve")
    /\ [](\A w \in Workers : pc[w] = "play_uri" => C3_SessionStarted(w))

\* A stop made between two serves: the second serve has just returned.
C3_Witness ==
    /\ pc[2] = "play_uri"
    /\ pc[1] = "done"
    /\ stopCmd # "none"
    /\ 1 \in stopped
    /\ resp.listener = 1

\* C4: a GET is answered with 200 exactly when its path is the path of the
\* URL that serve returned for the session, and with 404 otherwise.
C4_OnlyExactPath ==
    resp # NoResp =>
        /\ resp.path = UrlPath(file[resp.listener]) => resp.status = 200
        /\ resp.path # UrlPath(file[resp.listener]) => resp.status = 404

\* C5: a _stop that found an active target ends with the media server torn
\* down and the active target cleared, whether or not the coordinator's
\* stop raised.
C5_StopTearsDown ==
    [][(pc[UI] # "idle" /\ pc'[UI] = "idle" /\ stopCmd' # "none")
          => /\ httpd' = None
             /\ active_speaker' = NoSpeaker
             /\ \A l \in Listeners : ~Serving(l)']_vars

\* A _stop has finished after the coordinator's stop raised, and the
\* session it tore down had been running.
C5_Witness ==
    /\ pc[UI] = "idle"
    /\ stopCmd = "raised"
    /\ stopped # {}
    /\ httpd = None
    /\ active_speaker = NoSpeaker

\* C6: the active target is a coordinator whose play succeeded, and after
\* a play that rebound the server and then failed there is no active target.
C6_TargetClearedOnTeardown ==
    /\ active_speaker # NoSpeaker =>
           \E w \in Workers : pc[w] = "done" /\ coord[w] = active_speaker
    /\ (Quiescent /\ NumPlays >= 1 /\ pc[NumPlays] = "failed_play")
           => active_speaker = NoSpeaker

\* C7: after one play worker and the stops made beside it have all finished,
\* an active target is set only if the listener of its URL is being served.
C7_TargetImpliesServer ==
    (Quiescent /\ NumPlays = 1 /\ active_speaker # NoSpeaker)
        => Serving(ServeUrl(1).port) /\ sock[ServeUrl(1).port] = "open"

\* ------------------------------------------------------ group resolution
Range(s) == {s[i] : i \in DOMAIN s}
FoundCoordinators == {coordOf[d] : d \in found}
Labels(gs) == [i \in DOMAIN gs |-> gs[i].label]
LabelAB == NameA \o Separator \o NameB

\* The members of g are in ascending player_name order, its label is their
\* names joined by " + ".
WellFormedGroup(g) ==
    /\ \A i \in 1..(Len(g.members) - 1) :
           LexLeq(names[g.members[i]], names[g.members[i + 1]])
    /\ g.label = JoinNames(g.members)

\* The groups of gs are in ascending label order.
LabelsAscending(gs) ==
    \A i \in 1..(Len(gs) - 1) : LexLeq(gs[i].label, gs[i + 1].label)

\* No two groups of gs share a label, no two members of a group a name.
NoTies(gs) ==
    /\ \A i, j \in DOMAIN gs : gs[i].label = gs[j].label => i = j
    /\ \A k \in DOMAIN gs : \A i, j \in DOMAIN gs[k].members :
           names[gs[k].members[i]] = names[gs[k].members[j]] => i = j

\* C8: discover() emits exactly one group per coordinator of a discovered
\* device, every discovered device is a member of exactly one emitted
\* group, and each emitted group's coordinator is one of its members.
C8_OneGroupPerCoordinator ==
    discovered =>
        /\ \A c \in FoundCoordinators :
               Cardinality({i \in DOMAIN groups : groups[i].coord = c}) = 1
        /\ \A i \in DOMAIN groups : groups[i].coord \in FoundCoordinators
        /\ \A d \in found :
               Cardinality({i \in DOMAIN groups :
                               d \in Range(groups[i].members)}) = 1
        /\ \A i \in DOMAIN groups : groups[i].coord \in Range(groups[i].members)

\* Three discovered devices in two groups, one of them of two members that
\* were both discovered.
C8_Witness ==
    /\ discovered
    /\ found = Devices
    /\ Len(groups) = 2
    /\ \E i \in DOMAIN groups : Len(groups[i].members) >= 2

\* C9 as stated: whatever the iteration order, discover() gives the same
\* sequence of groups, members ascending by name, labels joined from them,
\* groups ascending by label.
C9_SameSequence ==
    discovered =>
        /\ \A o \in Orders : Resolve(o) = groups
        /\ \A i \in DOMAIN groups : WellFormedGroup(groups[i])
        /\ LabelsAscending(groups)

\* C9 amended: whatever the iteration order, discover() gives the same
\* sequence of labels, members ascending by name, labels joined from them,
\* groups ascending by label; and the same sequence of groups when no two
\* groups share a label and no two members of a group share a name.
C9_SameUpToTies ==
    discovered =>
        /\ \A o \in Orders :
               /\ Labels(Resolve(o)) = Labels(groups)
               /\ NoTies(groups) => Resolve(o) = groups
        /\ \A i \in DOMAIN groups : WellFormedGroup(groups[i])
        /\ LabelsAscending(groups)

\* Devices named A and B under one coordinator and a lone device named C,
\* all discovered: the groups "A + B" and "C".
C9_Witness ==
    /\ discovered
    /\ found = Devices
    /\ Labels(groups) = << LabelAB, NameC >>
    /\ Len(groups[1].members) = 2
    /\ NoTies(groups)

\* C10: a discovered device whose coordinator was not discovered is in no
\* emitted group, and no group is emitted for its coordinator.
C10_OrphanDropped ==
    discovered =>
        \A d \in found :
            coordOf[d] \notin found =>
                \A i \in DOMAIN groups :
                    /\ d \notin Range(groups[i].members)
                    /\ groups[i].coord # coordOf[d]

\* ------------------------------------------------- stop, idle and leftovers
\* C13: a FileServer.stop called while no session is referenced returns to
\* its caller without raising and leaves the FileServer as it was.
C13_StopIdempotent ==
    [][\A c \in Callers :
          (pc[c] = "stop_if" /\ httpd = None /\ pc'[c] # pc[c])
              => /\ pc'[c] = ret[c]
                 /\ fsVars' = fsVars
                 /\ file_path' = file_path]_vars

\* A second Stop after the first one tore the session down: its
\* FileServer.stop has returned (the handler is at line 295).
C13_Witness ==
    /\ pc[UI] = "ui_clear"
    /\ stopCmd = "none"
    /\ httpd = None
    /\ stopped # {}
    /\ NumPlays >= 1
    /\ \A w \in Workers : pc[w] \in {"unborn", "done"}

\* C14: a _stop that found no active target changes nothing of the media
\* server session: it never asks a listener to shut down nor clears _httpd.
C14_NoTargetStopIsNoop ==
    ~(/\ stopCmd = "none"
      /\ pc[UI] \in {"shutdown_wait", "stop_clear_httpd", "stop_clear_thread"})

\* C16: the event loop never runs the coordinator's stop nor waits for a
\* listener to shut down.
C16_EventLoopNeverBlocks == pc[UI] \notin {"ui_cmd", "shutdown_set", "shutdown_wait"}

\* A serving loop that answers requests now.
CanAnswer(t) ==
    /\ loopSt[t] = "running"
    /\ ~shutdown_request[loopTarget[t]]
    /\ sock[loopTarget[t]] = "open"

\* C17: whatever a live session answers is the file passed to the serve
\* call that bound its listener.
C17_BoundFileFixed ==
    \A t \in Workers, p \in GetPaths :
        CanAnswer(t) => send_head(p).body = file[loopTarget[t]]

\* C20: with no play or stop in flight, a served listener implies an active
\* target.
C20_ServerImpliesTarget ==
    (Quiescent /\ \E l \in Listeners : Serving(l)) => active_speaker # NoSpeaker

\* ------------------------------------------------------------------ volume
SetDone(v) == setSt[v] = "done"

\* C11: a set_vol worker never ends with an exception; when it is done it
\* has attempted every member, whatever subset raised, and each member that
\* accepted the write received the worker's level at that step.
C11_EveryMemberReceives ==
    /\ [](\A v \in SetWorkers : setSt[v] # "raised")
    /\ [](\A v \in SetWorkers : SetDone(v) =>
            \A i \in 1..Len(members) : setOut[v][members[i]] # "none")
    /\ [][\A v \in SetWorkers, d \in Devices :
            (setOut[v][d] = "none" /\ setOut'[v][d] = "ok")
                => volume'[d] = setVol[v]]_vars

\* A write to an earlier member raised and a later member still got the level.
C11_Witness ==
    \E v \in SetWorkers : \E i, j \in 1..Len(members) :
        /\ SetDone(v)
        /\ i < j
        /\ setOut[v][members[i]] = "raised"
        /\ setOut[v][members[j]] = "ok"
        /\ volume[members[j]] = setVol[v]

MemberSum == Sum([i \in 1..Len(members) |-> volume[members[i]]])

IsFloorMean(a) ==
    /\ a * Len(members) <= MemberSum
    /\ MemberSum < (a + 1) * Len(members)

\* C12: the displayed level is 0 (its initial value) until a fetch_vol's
\* average is shown, and from then on the floor of the mean of the members'
\* levels, within 0..100; a fetch_vol whose read failed posts nothing and
\* its failure leaves the display as it was.
C12_DisplayIsFloorMean ==
    /\ [](volume_var \in 0..100)
    /\ []((\E f \in FetchWorkers : fetchSt[f] = "shown") => IsFloorMean(volume_var))
    /\ []((\A f \in FetchWorkers : fetchSt[f] # "shown") => volume_var = 0)
    /\ [][\A f \in FetchWorkers :
            (fetchSt[f] # "failed" /\ fetchSt'[f] = "failed")
                => /\ volume_var' = volume_var
                   /\ fetchAvg' = fetchAvg]_vars
    /\ [][\A f \in FetchWorkers : fetchSt[f] = "failed" => fetchSt'[f] = "failed"]_vars

\* Members at 30, 45 and 50 display 41, and a second fetch_vol has failed
\* after reading a member.
C12_Witness ==
    /\ Len(members) = 3
    /\ volume[members[1]] = 30 /\ volume[members[2]] = 45 /\ volume[members[3]] = 50
    /\ volume_var = 41
    /\ \E f \in FetchWorkers : fetchSt[f] = "shown"
    /\ \E f \in FetchWorkers : fetchSt[f] = "failed" /\ fetchReads[f] # << >>

\* C19: once every set_vol worker is done, a member that accepted every
\* command holds the level of the last slider move.
C19_LastLevelWins ==
    (NumMoves >= 1 /\ \A v \in SetWorkers : setSt[v] \in {"none", "done"})
        => \A d \in Devices :
              (\A v \in 1..NumMoves : setOut[v][d] = "ok") => volume[d] = setVol[NumMoves]

\* ----------------------------------------------------------------- refresh
\* C15: a discover worker whose probe raised or returned nothing has handed
\* the empty list to the event loop.
C15_ProbeFailureDelivered ==
    \A r \in RefreshWorkers :
        rfProbe[r] \in {"nothing", "raises"}
            => rfSt[r] \in {"posted", "populated"} /\ rfGroups[r] = << >>

DistinctLabels(list) ==
    \A i, j \in DOMAIN list : list[i].label = list[j].label => i = j

AllDelivered ==
    /\ \A r \in RefreshWorkers : rfSt[r] \in {"none", "populated"}
    /\ \E r \in RefreshWorkers : rfSt[r] = "populated"

\* C18: once every discovery has delivered a list (each of distinct
\* labels), the Listbox shows every label once and exactly the keys of
\* self.groups.
C18_ListMatchesMap ==
    (AllDelivered /\ \A r \in RefreshWorkers : DistinctLabels(rfGroups[r]))
        => /\ \A i, j \in DOMAIN speaker_list :
                 speaker_list[i] = speaker_list[j] => i = j
           /\ Range(speaker_list) = DOMAIN self_groups

====
